---- MODULE Spec2Model ----
(***************************************************************************)
(* foody-api: cart, checkout and order-status handlers over the shared     *)
(* relational store.  Every handler is a sequence of store calls (one      *)
(* step per `await prisma...`); requests of any users may interleave       *)
(* between two store calls.  Spec lets requests overlap, SpecSeq runs one  *)
(* request at a time, SpecAll adds the review handlers to SpecSeq and      *)
(* starts from a store that already holds an order.                        *)
(***************************************************************************)
EXTENDS Integers, Sequences, FiniteSets, TLC

VARIABLES
  cart,        \* user_cart_items: id -> [userId, restaurantId, menuId, quantity]
  nextCartId,  \* SERIAL of user_cart_items.id
  orders,      \* transactions: sequence, index = transactions.id
  menuPrice,   \* resto_menus.price, per menu id
  reviews,     \* resto_reviews: id -> [userId, restaurantId, star]
  nextReviewId,\* SERIAL of resto_reviews.id
  rating,      \* restaurants.star per restaurant, in tenths
  now,         \* last value returned by Date.now()
  req,         \* the requests in flight, per slot: inputs and locals of the handler
  resp,        \* the response sent last: [op, code]
  served       \* number of requests and catalog updates so far

vars == <<cart, nextCartId, orders, menuPrice, reviews, nextReviewId, rating, now, req, resp, served>>

----------------------------------------------------------------------------
(* Bounds of the model *)

MaxRequests == 2    \* requests and catalog updates in one behaviour
MaxCartId == 3      \* cart rows ever inserted
MaxOrders == 2      \* transactions rows ever inserted
MaxReviewId == 2    \* review rows ever inserted
ClockStart == 10    \* first clock reading
MaxClock == 11      \* last clock reading
MaxListed == 3      \* cart rows in a listed cart
MaxRated == 4       \* reviews of one restaurant when its rating is recomputed alone

----------------------------------------------------------------------------
(* Catalog and request inputs *)

Users == {1, 2}
Restaurants == {1, 2}
Menus == {5, 9}
MenuRestaurant == (5 :> 1) @@ (9 :> 2)
RestaurantName == (1 :> "Burger King") @@ (2 :> "Pizza Hut")
FoodName == (5 :> "Burger King Burger") @@ (9 :> "Coca Cola")
InitialPrice == (5 :> 50000) @@ (9 :> 15000)
Prices == {15000, 50000}
InitialRating == (1 :> 45) @@ (2 :> 42)

RestaurantIds == Restaurants \cup {3}     \* 3: no such restaurant
MenuIds == Menus \cup {7}                 \* 7: no such menu
Quantities == {1, 2}
PaymentMethods == {"COD"}
Slots == {1, 2}

validStatuses == {"preparing", "on_the_way", "delivered", "done", "cancelled"}
StatusInputs == validStatuses \cup {"refunded"}
Stars == 1..5
StarInputs == 0..6                        \* 0: no star in the body; 6: out of range

serviceFee == 1000
deliveryFee == 10000

----------------------------------------------------------------------------
(* Pure helpers *)

RECURSIVE SumItemTotal(_)
SumItemTotal(items) ==
  IF items = <<>> THEN 0
  ELSE Head(items).itemTotal + SumItemTotal(Tail(items))

RECURSIVE Digits(_)
DigitChar == <<"0", "1", "2", "3", "4", "5", "6", "7", "8", "9">>
Digits(n) ==
  IF n < 10 THEN <<DigitChar[n + 1]>>
  ELSE Digits(n \div 10) \o <<DigitChar[(n % 10) + 1]>>

\* `TXN${Date.now()}${userId}`
TransactionId(t, u) == <<"T", "X", "N">> \o Digits(t) \o Digits(u)

\* the orders in which a findMany without orderBy may return the rows ids
Orderings(ids) ==
  {f \in [1..Cardinality(ids) -> ids] : \A i, j \in DOMAIN f : i # j => f[i] # f[j]}

\* the ids of a set of rows in ascending order
Ascending(ids) == CHOOSE f \in Orderings(ids) : \A i, j \in DOMAIN f : i < j => f[i] < f[j]

RECURSIVE SumStar(_)
SumStar(rows) ==
  IF rows = <<>> THEN 0
  ELSE Head(rows).star + SumStar(Tail(rows))

\* a mean cut off after the first decimal
RoundedMeanTruncated(rows) == (10 * SumStar(rows)) \div Len(rows)

\* Math.round(averageRating * 10) / 10, in tenths
RoundedMean(rows) == (20 * SumStar(rows) + Len(rows)) \div (2 * Len(rows))

UserCartIds(u) == {id \in DOMAIN cart : cart[id].userId = u}

\* a cart row carrying the price the menu was seeded with
CartRowSeedPrice(id) ==
  [id |-> id, restaurantId |-> cart[id].restaurantId, menuId |-> cart[id].menuId,
   quantity |-> cart[id].quantity, price |-> InitialPrice[cart[id].menuId]]

\* a cart row together with the menu joined by `include`
CartRow(id) ==
  [id |-> id, restaurantId |-> cart[id].restaurantId, menuId |-> cart[id].menuId,
   quantity |-> cart[id].quantity, price |-> menuPrice[cart[id].menuId]]

\* orderItems.push({...}) of one cart row
OrderItem(row) ==
  [restaurantId |-> row.restaurantId,
   restaurantName |-> RestaurantName[row.restaurantId],
   menuId |-> row.menuId,
   menuName |-> FoodName[row.menuId],
   price |-> row.price,
   quantity |-> row.quantity,
   itemTotal |-> row.price * row.quantity]

OrderItems(rows) == [i \in DOMAIN rows |-> OrderItem(rows[i])]

\* the restaurantGroups object: one key per restaurant id seen
RestaurantGroups(items) == {items[i].restaurantId : i \in DOMAIN items}

\* a forEach step that overwrites the group's subtotal with the row's total
GroupIntoLastTotal(acc, row) ==
  LET itemTotal == row.price * row.quantity
      old == IF row.restaurantId \in DOMAIN acc.groups
               THEN acc.groups[row.restaurantId]
               ELSE [restaurant |-> row.restaurantId, items |-> <<>>, subtotal |-> 0]
      new == [old EXCEPT !.items = Append(@, [id |-> row.id, menu |-> row.menuId,
                                               quantity |-> row.quantity,
                                               itemTotal |-> itemTotal]),
                         !.subtotal = itemTotal]
  IN [groups |-> [k \in DOMAIN acc.groups \cup {row.restaurantId} |->
                    IF k = row.restaurantId THEN new ELSE acc.groups[k]],
      totalItems |-> acc.totalItems + row.quantity,
      totalPrice |-> acc.totalPrice + itemTotal]

\* one step of cartItems.forEach: the row joins the group of its restaurant
\* (made on first sight) and the sums grow by its quantity and total
GroupInto(acc, row) ==
  LET itemTotal == row.price * row.quantity
      old == IF row.restaurantId \in DOMAIN acc.groups
               THEN acc.groups[row.restaurantId]
               ELSE [restaurant |-> row.restaurantId, items |-> <<>>, subtotal |-> 0]
      new == [old EXCEPT !.items = Append(@, [id |-> row.id, menu |-> row.menuId,
                                               quantity |-> row.quantity,
                                               itemTotal |-> itemTotal]),
                         !.subtotal = @ + itemTotal]
  IN [groups |-> [k \in DOMAIN acc.groups \cup {row.restaurantId} |->
                    IF k = row.restaurantId THEN new ELSE acc.groups[k]],
      totalItems |-> acc.totalItems + row.quantity,
      totalPrice |-> acc.totalPrice + itemTotal]

\* cartItems.forEach over the rows, from groupedCart = {} and sums of 0
RECURSIVE GroupedCart(_, _)
GroupedCart(rows, acc) ==
  IF rows = <<>> THEN acc
  ELSE GroupedCart(Tail(rows), GroupInto(acc, Head(rows)))

\* the body of GET /cart: Object.values(groupedCart), which lists integer
\* keys in ascending order, and the summary
CartListing(rows) ==
  LET g == GroupedCart(rows, [groups |-> <<>>, totalItems |-> 0, totalPrice |-> 0])
      keys == Ascending(DOMAIN g.groups)
      cartArray == [i \in DOMAIN keys |-> g.groups[keys[i]]]
  IN [cart |-> cartArray,
      summary |-> [totalItems |-> g.totalItems,
                   totalPrice |-> g.totalPrice,
                   restaurantCount |-> Len(cartArray)]]

----------------------------------------------------------------------------
(* Request slots *)

Idle ==
  [op |-> "none", pc |-> "idle", user |-> 0, target |-> 0, r |-> 0, m |-> 0,
   q |-> 0, label |-> "", seen |-> <<>>, made |-> 0]

Free(s) == req[s].pc = "idle"
Quiet == \A s \in Slots : Free(s)

\* the slot a new request takes (slots are interchangeable)
Fresh(s) == Free(s) /\ \A t \in Slots : t < s => ~Free(t)

\* a request or a catalog update is admitted
Admit ==
  /\ served < MaxRequests
  /\ served' = served + 1

\* successResponse / errorResponse: the handler returns
Respond(s, op, code) ==
  /\ req' = [req EXCEPT ![s] = Idle]
  /\ resp' = [op |-> op, code |-> code]

\* the handler goes on to its next store call
Goto(s, r) ==
  /\ req' = [req EXCEPT ![s] = r]
  /\ UNCHANGED resp

\* the handler answers with a body and leaves
RespondWith(s, op, code, data) ==
  /\ req' = [req EXCEPT ![s] = Idle]
  /\ resp' = [op |-> op, code |-> code, data |-> data]

\* the carts a behaviour may start from, as earlier POST /cart requests left
\* them: none; menu 5 twice and menu 9 once for user 1; one row for each user
InitialCarts ==
  {<<>>,
   <<[userId |-> 1, restaurantId |-> 1, menuId |-> 5, quantity |-> 2],
     [userId |-> 1, restaurantId |-> 2, menuId |-> 9, quantity |-> 1]>>,
   <<[userId |-> 1, restaurantId |-> 1, menuId |-> 5, quantity |-> 1],
     [userId |-> 2, restaurantId |-> 2, menuId |-> 9, quantity |-> 1]>>}

Init ==
  /\ cart \in InitialCarts
  /\ nextCartId = Len(cart) + 1
  /\ orders = <<>>
  /\ menuPrice = InitialPrice
  /\ reviews = <<>>
  /\ nextReviewId = 1
  /\ rating = InitialRating
  /\ now = ClockStart
  /\ req = [s \in Slots |-> Idle]
  /\ resp = [op |-> "none", code |-> 0]
  /\ served = 0

----------------------------------------------------------------------------
(* POST /cart *)

\* the lookups with the menu looked up by its id alone
AddItemReadAnyMenu(s, u, r, m, q, ok) ==
  /\ Fresh(s)
  /\ Admit
  /\ LET base == [Idle EXCEPT !.op = "addItem", !.user = u, !.r = r, !.m = m, !.q = q]
         found == {id \in DOMAIN cart : /\ cart[id].userId = u
                                         /\ cart[id].restaurantId = r
                                         /\ cart[id].menuId = m}
     IN IF ~ok THEN Respond(s, base.op, 500)
        ELSE IF r \notin Restaurants THEN Respond(s, base.op, 404)
        ELSE IF m \notin Menus THEN Respond(s, base.op, 404)
        ELSE IF found = {} THEN
          Goto(s, [base EXCEPT !.pc = "add_write"])
        ELSE \E id \in found :
          Goto(s, [base EXCEPT !.pc = "add_write", !.seen = <<CartRow(id)>>])
  /\ UNCHANGED <<cart, nextCartId, orders, menuPrice, now, reviews, nextReviewId, rating>>

\* restaurant.findUnique, restoMenu.findFirst, userCartItem.findFirst
AddItemRead(s, u, r, m, q, ok) ==
  /\ Fresh(s)
  /\ Admit
  /\ LET base == [Idle EXCEPT !.op = "addItem", !.user = u, !.r = r, !.m = m, !.q = q]
         found == {id \in DOMAIN cart : /\ cart[id].userId = u
                                         /\ cart[id].restaurantId = r
                                         /\ cart[id].menuId = m}
     IN IF ~ok THEN Respond(s, base.op, 500)
        ELSE IF r \notin Restaurants THEN Respond(s, base.op, 404)
        ELSE IF m \notin Menus \/ MenuRestaurant[m] # r THEN Respond(s, base.op, 404)
        ELSE IF found = {} THEN
          Goto(s, [base EXCEPT !.pc = "add_write"])
        ELSE \E id \in found :
          Goto(s, [base EXCEPT !.pc = "add_write", !.seen = <<CartRow(id)>>])
  /\ UNCHANGED <<cart, nextCartId, orders, menuPrice, now, reviews, nextReviewId, rating>>

\* an update that stores the requested quantity instead of the sum
AddItemWriteReplacing(s, ok) ==
  /\ req[s].pc = "add_write"
  /\ UNCHANGED served
  /\ LET me == req[s] IN
       IF ~ok THEN
         /\ Respond(s, me.op, 500)
         /\ UNCHANGED <<cart, nextCartId>>
       ELSE IF me.seen # <<>> THEN
         LET id == me.seen[1].id
         IN IF id \notin DOMAIN cart THEN
              /\ Respond(s, me.op, 500)
              /\ UNCHANGED <<cart, nextCartId>>
            ELSE
              /\ cart' = [cart EXCEPT ![id].quantity = me.q]
              /\ Respond(s, me.op, 201)
              /\ UNCHANGED nextCartId
       ELSE
         /\ nextCartId <= MaxCartId
         /\ cart' = cart @@ (nextCartId :>
                       [userId |-> me.user, restaurantId |-> me.r,
                        menuId |-> me.m, quantity |-> me.q])
         /\ nextCartId' = nextCartId + 1
         /\ Respond(s, me.op, 201)
  /\ UNCHANGED <<orders, menuPrice, now, reviews, nextReviewId, rating>>

\* an update that increments the stored quantity in the store
AddItemWriteIncrementing(s, ok) ==
  /\ req[s].pc = "add_write"
  /\ UNCHANGED served
  /\ LET me == req[s] IN
       IF ~ok THEN
         /\ Respond(s, me.op, 500)
         /\ UNCHANGED <<cart, nextCartId>>
       ELSE IF me.seen # <<>> THEN
         LET id == me.seen[1].id
         IN IF id \notin DOMAIN cart THEN
              /\ Respond(s, me.op, 500)
              /\ UNCHANGED <<cart, nextCartId>>
            ELSE
              /\ cart' = [cart EXCEPT ![id].quantity = @ + me.q]
              /\ Respond(s, me.op, 201)
              /\ UNCHANGED nextCartId
       ELSE
         /\ nextCartId <= MaxCartId
         /\ cart' = cart @@ (nextCartId :>
                       [userId |-> me.user, restaurantId |-> me.r,
                        menuId |-> me.m, quantity |-> me.q])
         /\ nextCartId' = nextCartId + 1
         /\ Respond(s, me.op, 201)
  /\ UNCHANGED <<orders, menuPrice, now, reviews, nextReviewId, rating>>

\* userCartItem.update / userCartItem.create, then the response
AddItemWrite(s, ok) ==
  /\ req[s].pc = "add_write"
  /\ UNCHANGED served
  /\ LET me == req[s] IN
       IF ~ok THEN
         /\ Respond(s, me.op, 500)
         /\ UNCHANGED <<cart, nextCartId>>
       ELSE IF me.seen # <<>> THEN
         LET id == me.seen[1].id
             quantity == me.seen[1].quantity + me.q
         IN IF id \notin DOMAIN cart THEN
              /\ Respond(s, me.op, 500)
              /\ UNCHANGED <<cart, nextCartId>>
            ELSE
              /\ cart' = [cart EXCEPT ![id].quantity = quantity]
              /\ Respond(s, me.op, 201)
              /\ UNCHANGED nextCartId
       ELSE
         /\ nextCartId <= MaxCartId
         /\ cart' = cart @@ (nextCartId :>
                       [userId |-> me.user, restaurantId |-> me.r,
                        menuId |-> me.m, quantity |-> me.q])
         /\ nextCartId' = nextCartId + 1
         /\ Respond(s, me.op, 201)
  /\ UNCHANGED <<orders, menuPrice, now, reviews, nextReviewId, rating>>

----------------------------------------------------------------------------
(* PUT /cart/:id *)

\* userCartItem.findFirst({id, userId})
UpdateQuantityRead(s, u, id, q, ok) ==
  /\ Fresh(s)
  /\ Admit
  /\ LET base == [Idle EXCEPT !.op = "updateQuantity", !.user = u, !.target = id, !.q = q]
     IN IF ~ok THEN Respond(s, base.op, 500)
        ELSE IF id \notin UserCartIds(u) THEN Respond(s, base.op, 404)
        ELSE Goto(s, [base EXCEPT !.pc = "upd_write"])
  /\ UNCHANGED <<cart, nextCartId, orders, menuPrice, now, reviews, nextReviewId, rating>>

\* an update that adds the requested quantity to the stored one
UpdateQuantityWriteAdding(s, ok) ==
  /\ req[s].pc = "upd_write"
  /\ UNCHANGED served
  /\ LET me == req[s] IN
       IF ~ok \/ me.target \notin DOMAIN cart THEN
         /\ Respond(s, me.op, 500)
         /\ UNCHANGED cart
       ELSE
         /\ cart' = [cart EXCEPT ![me.target].quantity = @ + me.q]
         /\ RespondWith(s, me.op, 200,
              [id |-> me.target, quantity |-> cart'[me.target].quantity,
               itemTotal |-> menuPrice[cart[me.target].menuId] * cart'[me.target].quantity])
  /\ UNCHANGED <<nextCartId, orders, menuPrice, now, reviews, nextReviewId, rating>>

\* userCartItem.update({where: {id}, data: {quantity}, include: {menu}}), then
\* the response with the row's quantity and itemTotal = menu.price * quantity
UpdateQuantityWrite(s, ok) ==
  /\ req[s].pc = "upd_write"
  /\ UNCHANGED served
  /\ LET me == req[s] IN
       IF ~ok \/ me.target \notin DOMAIN cart THEN
         /\ Respond(s, me.op, 500)
         /\ UNCHANGED cart
       ELSE
         /\ cart' = [cart EXCEPT ![me.target].quantity = me.q]
         /\ RespondWith(s, me.op, 200,
              [id |-> me.target, quantity |-> cart'[me.target].quantity,
               itemTotal |-> menuPrice[cart[me.target].menuId] * cart'[me.target].quantity])
  /\ UNCHANGED <<nextCartId, orders, menuPrice, now, reviews, nextReviewId, rating>>

(* DELETE /cart/:id *)

\* userCartItem.findFirst({id, userId})
RemoveItemRead(s, u, id, ok) ==
  /\ Fresh(s)
  /\ Admit
  /\ LET base == [Idle EXCEPT !.op = "removeItem", !.user = u, !.target = id]
     IN IF ~ok THEN Respond(s, base.op, 500)
        ELSE IF id \notin UserCartIds(u) THEN Respond(s, base.op, 404)
        ELSE Goto(s, [base EXCEPT !.pc = "rem_write"])
  /\ UNCHANGED <<cart, nextCartId, orders, menuPrice, now, reviews, nextReviewId, rating>>

\* userCartItem.delete({where: {id}}), then the response
RemoveItemWrite(s, ok) ==
  /\ req[s].pc = "rem_write"
  /\ UNCHANGED served
  /\ LET me == req[s] IN
       IF ~ok \/ me.target \notin DOMAIN cart THEN
         /\ Respond(s, me.op, 500)
         /\ UNCHANGED cart
       ELSE
         /\ cart' = [id \in DOMAIN cart \ {me.target} |-> cart[id]]
         /\ Respond(s, me.op, 200)
  /\ UNCHANGED <<nextCartId, orders, menuPrice, now, reviews, nextReviewId, rating>>

(* GET /cart *)

\* userCartItem.findMany({where: {userId}, include: {menu}, orderBy: createdAt}),
\* rows of one createdAt in any order, then the grouping and the response
ListCart(s, u, ok) ==
  /\ Fresh(s)
  /\ Admit
  /\ IF ~ok THEN Respond(s, "listGrouped", 500)
     ELSE \E f \in Orderings(UserCartIds(u)) :
            RespondWith(s, "listGrouped", 200, CartListing([i \in DOMAIN f |-> CartRow(f[i])]))
  /\ UNCHANGED <<cart, nextCartId, orders, menuPrice, now, reviews, nextReviewId, rating>>

(* DELETE /cart *)

\* a clear whose deleteMany has no where clause
ClearCartEveryUser(s, u, ok) ==
  /\ Fresh(s)
  /\ Admit
  /\ LET base == [Idle EXCEPT !.op = "clear", !.user = u]
     IN IF ~ok THEN
          /\ Respond(s, base.op, 500)
          /\ UNCHANGED cart
        ELSE
          /\ cart' = <<>>
          /\ Respond(s, base.op, 200)
  /\ UNCHANGED <<nextCartId, orders, menuPrice, now, reviews, nextReviewId, rating>>

\* userCartItem.deleteMany({where: {userId}}), then the response
ClearCart(s, u, ok) ==
  /\ Fresh(s)
  /\ Admit
  /\ LET base == [Idle EXCEPT !.op = "clear", !.user = u]
     IN IF ~ok THEN
          /\ Respond(s, base.op, 500)
          /\ UNCHANGED cart
        ELSE
          /\ cart' = [id \in DOMAIN cart \ UserCartIds(u) |-> cart[id]]
          /\ Respond(s, base.op, 200)
  /\ UNCHANGED <<nextCartId, orders, menuPrice, now, reviews, nextReviewId, rating>>

----------------------------------------------------------------------------
(* POST /order/checkout *)

\* a checkout that goes on whatever findMany returned
CheckoutReadUnguarded(s, u, pm, ok) ==
  /\ Fresh(s)
  /\ Admit
  /\ LET base == [Idle EXCEPT !.op = "checkout", !.user = u, !.label = pm]
     IN IF ~ok THEN Respond(s, base.op, 500)
        ELSE \E f \in Orderings(UserCartIds(u)) :
          Goto(s, [base EXCEPT !.pc = "co_create",
                               !.seen = [i \in DOMAIN f |-> CartRow(f[i])]])
  /\ UNCHANGED <<cart, nextCartId, orders, menuPrice, now, reviews, nextReviewId, rating>>

\* userCartItem.findMany({where: {userId}, include: {restaurant, menu}})
CheckoutRead(s, u, pm, ok) ==
  /\ Fresh(s)
  /\ Admit
  /\ LET base == [Idle EXCEPT !.op = "checkout", !.user = u, !.label = pm]
     IN IF ~ok THEN Respond(s, base.op, 500)
        ELSE IF UserCartIds(u) = {} THEN Respond(s, base.op, 400)
        ELSE \E f \in Orderings(UserCartIds(u)) :
          Goto(s, [base EXCEPT !.pc = "co_create",
                               !.seen = [i \in DOMAIN f |-> CartRow(f[i])]])
  /\ UNCHANGED <<cart, nextCartId, orders, menuPrice, now, reviews, nextReviewId, rating>>

\* an order whose total leaves the delivery fee out
NewOrderWithoutDeliveryFee(u, pm, cartItems, t) ==
  LET orderItems == OrderItems(cartItems)
      subtotal == SumItemTotal(orderItems)
      totalPrice == subtotal + serviceFee
  IN [transactionId |-> TransactionId(t, u),
      userId |-> u,
      paymentMethod |-> pm,
      price |-> subtotal,
      serviceFee |-> serviceFee,
      deliveryFee |-> deliveryFee,
      totalPrice |-> totalPrice,
      status |-> "preparing",
      items |-> orderItems]

\* an order created with a status outside the enumeration
NewOrderPending(u, pm, cartItems, t) ==
  LET orderItems == OrderItems(cartItems)
      subtotal == SumItemTotal(orderItems)
      totalPrice == subtotal + serviceFee + deliveryFee
  IN [transactionId |-> TransactionId(t, u),
      userId |-> u,
      paymentMethod |-> pm,
      price |-> subtotal,
      serviceFee |-> serviceFee,
      deliveryFee |-> deliveryFee,
      totalPrice |-> totalPrice,
      status |-> "pending",
      items |-> orderItems]

\* the totals, the identifier and transaction.create
NewOrder(u, pm, cartItems, t) ==
  LET orderItems == OrderItems(cartItems)
      subtotal == SumItemTotal(orderItems)
      totalPrice == subtotal + serviceFee + deliveryFee
  IN [transactionId |-> TransactionId(t, u),
      userId |-> u,
      paymentMethod |-> pm,
      price |-> subtotal,
      serviceFee |-> serviceFee,
      deliveryFee |-> deliveryFee,
      totalPrice |-> totalPrice,
      status |-> "preparing",
      items |-> orderItems]

\* a transactions table without the unique index
TransactionIdNeverTaken(tid) == FALSE

\* transactions_transactionId_key
TransactionIdTaken(tid) == \E i \in DOMAIN orders : orders[i].transactionId = tid

CheckoutCreate(s, ok) ==
  /\ req[s].pc = "co_create"
  /\ UNCHANGED served
  /\ LET me == req[s] IN
     \E t \in now..MaxClock :
       /\ now' = t
       /\ LET order == NewOrder(me.user, me.label, me.seen, t) IN
            IF ~ok \/ TransactionIdTaken(order.transactionId) THEN
              /\ Respond(s, me.op, 500)
              /\ UNCHANGED orders
            ELSE
              /\ Len(orders) < MaxOrders
              /\ orders' = Append(orders, order)
              /\ Goto(s, [me EXCEPT !.pc = "co_clear", !.made = Len(orders) + 1])
  /\ UNCHANGED <<cart, nextCartId, menuPrice, reviews, nextReviewId, rating>>

\* a deleteMany without the where clause
CheckoutClearEveryCart(s, ok) ==
  /\ req[s].pc = "co_clear"
  /\ UNCHANGED served
  /\ LET me == req[s] IN
       IF ~ok THEN
         /\ Respond(s, me.op, 500)
         /\ UNCHANGED cart
       ELSE
         /\ cart' = <<>>
         /\ Respond(s, me.op, 201)
  /\ UNCHANGED <<nextCartId, orders, menuPrice, now, reviews, nextReviewId, rating>>

\* userCartItem.deleteMany({where: {userId}}), then the response
CheckoutClear(s, ok) ==
  /\ req[s].pc = "co_clear"
  /\ UNCHANGED served
  /\ LET me == req[s] IN
       IF ~ok THEN
         /\ Respond(s, me.op, 500)
         /\ UNCHANGED cart
       ELSE
         /\ cart' = [id \in DOMAIN cart \ UserCartIds(me.user) |-> cart[id]]
         /\ Respond(s, me.op, 201)
  /\ UNCHANGED <<nextCartId, orders, menuPrice, now, reviews, nextReviewId, rating>>

----------------------------------------------------------------------------
(* PUT /order/:id/status *)

\* a status update that looks the order up without validating the status
SetStatusReadUnvalidated(s, u, id, status, ok) ==
  /\ Fresh(s)
  /\ Admit
  /\ LET base == [Idle EXCEPT !.op = "setStatus", !.user = u, !.target = id, !.label = status]
     IN IF ~ok THEN Respond(s, base.op, 500)
        ELSE IF ~(id \in DOMAIN orders /\ orders[id].userId = u) THEN Respond(s, base.op, 404)
        ELSE Goto(s, [base EXCEPT !.pc = "st_write"])
  /\ UNCHANGED <<cart, nextCartId, orders, menuPrice, now, reviews, nextReviewId, rating>>

\* a status update that looks the order up by id alone
SetStatusReadAnyOwner(s, u, id, status, ok) ==
  /\ Fresh(s)
  /\ Admit
  /\ LET base == [Idle EXCEPT !.op = "setStatus", !.user = u, !.target = id, !.label = status]
     IN IF status \notin validStatuses THEN Respond(s, base.op, 400)
        ELSE IF ~ok THEN Respond(s, base.op, 500)
        ELSE IF id \notin DOMAIN orders THEN Respond(s, base.op, 404)
        ELSE Goto(s, [base EXCEPT !.pc = "st_write"])
  /\ UNCHANGED <<cart, nextCartId, orders, menuPrice, now, reviews, nextReviewId, rating>>

\* a status update that refuses to leave done or cancelled
SetStatusReadTerminalChecked(s, u, id, status, ok) ==
  /\ Fresh(s)
  /\ Admit
  /\ LET base == [Idle EXCEPT !.op = "setStatus", !.user = u, !.target = id, !.label = status]
     IN IF status \notin validStatuses THEN Respond(s, base.op, 400)
        ELSE IF ~ok THEN Respond(s, base.op, 500)
        ELSE IF ~(id \in DOMAIN orders /\ orders[id].userId = u) THEN Respond(s, base.op, 404)
        ELSE IF orders[id].status \in {"done", "cancelled"} THEN Respond(s, base.op, 400)
        ELSE Goto(s, [base EXCEPT !.pc = "st_write"])
  /\ UNCHANGED <<cart, nextCartId, orders, menuPrice, now, reviews, nextReviewId, rating>>

\* validStatuses.includes(status), then transaction.findFirst({id, userId})
SetStatusRead(s, u, id, status, ok) ==
  /\ Fresh(s)
  /\ Admit
  /\ LET base == [Idle EXCEPT !.op = "setStatus", !.user = u, !.target = id, !.label = status]
     IN IF status \notin validStatuses THEN Respond(s, base.op, 400)
        ELSE IF ~ok THEN Respond(s, base.op, 500)
        ELSE IF ~(id \in DOMAIN orders /\ orders[id].userId = u) THEN Respond(s, base.op, 404)
        ELSE Goto(s, [base EXCEPT !.pc = "st_write"])
  /\ UNCHANGED <<cart, nextCartId, orders, menuPrice, now, reviews, nextReviewId, rating>>

\* an update that also resets the payment method
SetStatusWriteAndPayment(s, ok) ==
  /\ req[s].pc = "st_write"
  /\ UNCHANGED served
  /\ LET me == req[s] IN
       IF ~ok THEN
         /\ Respond(s, me.op, 500)
         /\ UNCHANGED orders
       ELSE
         /\ orders' = [orders EXCEPT ![me.target].status = me.label,
                                     ![me.target].paymentMethod = ""]
         /\ Respond(s, me.op, 200)
  /\ UNCHANGED <<cart, nextCartId, menuPrice, now, reviews, nextReviewId, rating>>

\* transaction.update({where: {id}, data: {status}}), then the response
SetStatusWrite(s, ok) ==
  /\ req[s].pc = "st_write"
  /\ UNCHANGED served
  /\ LET me == req[s] IN
       IF ~ok THEN
         /\ Respond(s, me.op, 500)
         /\ UNCHANGED orders
       ELSE
         /\ orders' = [orders EXCEPT ![me.target].status = me.label]
         /\ Respond(s, me.op, 200)
  /\ UNCHANGED <<cart, nextCartId, menuPrice, now, reviews, nextReviewId, rating>>

----------------------------------------------------------------------------
(* updateRestaurantRating: failures are logged and swallowed *)

Success(op) == IF op = "createReview" THEN 201 ELSE 200

\* restoReview.findMany({where: {restaurantId}, select: {star}})
RatingRead(s, ok) ==
  /\ req[s].pc = "rate_read"
  /\ UNCHANGED served
  /\ LET me == req[s]
         ids == {id \in DOMAIN reviews : reviews[id].restaurantId = me.r}
         f == Ascending(ids)
     IN IF ~ok \/ ids = {} THEN Respond(s, me.op, Success(me.op))
        ELSE Goto(s, [me EXCEPT !.pc = "rate_write",
                                !.seen = [i \in DOMAIN f |-> [star |-> reviews[f[i]].star]]])
  /\ UNCHANGED <<cart, nextCartId, orders, menuPrice, now, reviews, nextReviewId, rating>>

\* restaurant.update({where: {id}, data: {star}}), then the handler's response
RatingWrite(s, ok) ==
  /\ req[s].pc = "rate_write"
  /\ UNCHANGED served
  /\ LET me == req[s] IN
       /\ IF ok THEN rating' = [rating EXCEPT ![me.r] = RoundedMean(me.seen)]
          ELSE UNCHANGED rating
       /\ Respond(s, me.op, Success(me.op))
  /\ UNCHANGED <<cart, nextCartId, orders, menuPrice, now, reviews, nextReviewId>>

(* POST /review *)

\* the lookups without the one of the order's lines
CreateReviewReadAnyRestaurant(s, u, tid, r, star, ok) ==
  /\ Fresh(s)
  /\ Admit
  /\ LET base == [Idle EXCEPT !.op = "createReview", !.user = u, !.r = r, !.q = star]
         found == {i \in DOMAIN orders : /\ orders[i].transactionId = tid
                                          /\ orders[i].userId = u}
     IN IF ~ok THEN Respond(s, base.op, 500)
        ELSE IF found = {} THEN Respond(s, base.op, 404)
        ELSE IF r \notin Restaurants THEN Respond(s, base.op, 404)
        ELSE IF \E id \in DOMAIN reviews : /\ reviews[id].userId = u
                                           /\ reviews[id].restaurantId = r
          THEN Respond(s, base.op, 409)
        ELSE Goto(s, [base EXCEPT !.pc = "cr_create"])
  /\ UNCHANGED <<cart, nextCartId, orders, menuPrice, now, reviews, nextReviewId, rating>>

\* the lookups without the one of an earlier review of the pair
CreateReviewReadNoDuplicateCheck(s, u, tid, r, star, ok) ==
  /\ Fresh(s)
  /\ Admit
  /\ LET base == [Idle EXCEPT !.op = "createReview", !.user = u, !.r = r, !.q = star]
         found == {i \in DOMAIN orders : /\ orders[i].transactionId = tid
                                          /\ orders[i].userId = u}
     IN IF ~ok THEN Respond(s, base.op, 500)
        ELSE IF found = {} THEN Respond(s, base.op, 404)
        ELSE IF r \notin Restaurants THEN Respond(s, base.op, 404)
        ELSE IF \A i \in found : \A k \in DOMAIN orders[i].items :
                  orders[i].items[k].restaurantId # r
          THEN Respond(s, base.op, 400)
        ELSE Goto(s, [base EXCEPT !.pc = "cr_create"])
  /\ UNCHANGED <<cart, nextCartId, orders, menuPrice, now, reviews, nextReviewId, rating>>

\* transaction.findFirst, restaurant.findUnique, items.some, restoReview.findFirst
CreateReviewRead(s, u, tid, r, star, ok) ==
  /\ Fresh(s)
  /\ Admit
  /\ LET base == [Idle EXCEPT !.op = "createReview", !.user = u, !.r = r, !.q = star]
         found == {i \in DOMAIN orders : /\ orders[i].transactionId = tid
                                          /\ orders[i].userId = u}
     IN IF ~ok THEN Respond(s, base.op, 500)
        ELSE IF found = {} THEN Respond(s, base.op, 404)
        ELSE IF r \notin Restaurants THEN Respond(s, base.op, 404)
        ELSE IF \A i \in found : \A k \in DOMAIN orders[i].items :
                  orders[i].items[k].restaurantId # r
          THEN Respond(s, base.op, 400)
        ELSE IF \E id \in DOMAIN reviews : /\ reviews[id].userId = u
                                           /\ reviews[id].restaurantId = r
          THEN Respond(s, base.op, 409)
        ELSE Goto(s, [base EXCEPT !.pc = "cr_create"])
  /\ UNCHANGED <<cart, nextCartId, orders, menuPrice, now, reviews, nextReviewId, rating>>

\* restoReview.create
CreateReviewWrite(s, ok) ==
  /\ req[s].pc = "cr_create"
  /\ UNCHANGED served
  /\ LET me == req[s] IN
       IF ~ok THEN
         /\ Respond(s, me.op, 500)
         /\ UNCHANGED <<reviews, nextReviewId>>
       ELSE
         /\ nextReviewId <= MaxReviewId
         /\ reviews' = reviews @@ (nextReviewId :>
                          [userId |-> me.user, restaurantId |-> me.r, star |-> me.q])
         /\ nextReviewId' = nextReviewId + 1
         /\ Goto(s, [me EXCEPT !.pc = "rate_read", !.made = nextReviewId])
  /\ UNCHANGED <<cart, nextCartId, orders, menuPrice, now, rating>>

(* PUT /review/:id *)

\* the lookup without the inline range check
UpdateReviewReadUnchecked(s, u, id, star, ok) ==
  /\ Fresh(s)
  /\ Admit
  /\ LET base == [Idle EXCEPT !.op = "updateReview", !.user = u, !.target = id, !.q = star]
     IN IF ~ok THEN Respond(s, base.op, 500)
        ELSE IF ~(id \in DOMAIN reviews /\ reviews[id].userId = u)
          THEN Respond(s, base.op, 404)
        ELSE Goto(s, [base EXCEPT !.pc = "ur_write", !.r = reviews[id].restaurantId])
  /\ UNCHANGED <<cart, nextCartId, orders, menuPrice, now, reviews, nextReviewId, rating>>

\* the inline range check, then restoReview.findFirst({id, userId})
UpdateReviewRead(s, u, id, star, ok) ==
  /\ Fresh(s)
  /\ Admit
  /\ LET base == [Idle EXCEPT !.op = "updateReview", !.user = u, !.target = id, !.q = star]
     IN IF star # 0 /\ (star < 1 \/ star > 5) THEN Respond(s, base.op, 400)
        ELSE IF ~ok THEN Respond(s, base.op, 500)
        ELSE IF ~(id \in DOMAIN reviews /\ reviews[id].userId = u)
          THEN Respond(s, base.op, 404)
        ELSE Goto(s, [base EXCEPT !.pc = "ur_write", !.r = reviews[id].restaurantId])
  /\ UNCHANGED <<cart, nextCartId, orders, menuPrice, now, reviews, nextReviewId, rating>>

\* an update that answers without recomputing the rating
UpdateReviewWriteNoRecompute(s, ok) ==
  /\ req[s].pc = "ur_write"
  /\ UNCHANGED served
  /\ LET me == req[s] IN
       IF ~ok \/ me.target \notin DOMAIN reviews THEN
         /\ Respond(s, me.op, 500)
         /\ UNCHANGED reviews
       ELSE IF me.q # 0 THEN
         /\ reviews' = [reviews EXCEPT ![me.target].star = me.q]
         /\ Respond(s, me.op, 200)
       ELSE
         /\ UNCHANGED reviews
         /\ Respond(s, me.op, 200)
  /\ UNCHANGED <<cart, nextCartId, orders, menuPrice, now, nextReviewId, rating>>

\* restoReview.update({where: {id}, data: {...(star && {star})}})
UpdateReviewWrite(s, ok) ==
  /\ req[s].pc = "ur_write"
  /\ UNCHANGED served
  /\ LET me == req[s] IN
       IF ~ok \/ me.target \notin DOMAIN reviews THEN
         /\ Respond(s, me.op, 500)
         /\ UNCHANGED reviews
       ELSE IF me.q # 0 THEN
         /\ reviews' = [reviews EXCEPT ![me.target].star = me.q]
         /\ Goto(s, [me EXCEPT !.pc = "rate_read"])
       ELSE
         /\ UNCHANGED reviews
         /\ Respond(s, me.op, 200)
  /\ UNCHANGED <<cart, nextCartId, orders, menuPrice, now, nextReviewId, rating>>

(* DELETE /review/:id *)

\* a delete that looks the review up by id alone
DeleteReviewReadAnyOwner(s, u, id, ok) ==
  /\ Fresh(s)
  /\ Admit
  /\ LET base == [Idle EXCEPT !.op = "deleteReview", !.user = u, !.target = id]
     IN IF ~ok THEN Respond(s, base.op, 500)
        ELSE IF id \notin DOMAIN reviews THEN Respond(s, base.op, 404)
        ELSE Goto(s, [base EXCEPT !.pc = "dr_write", !.r = reviews[id].restaurantId])
  /\ UNCHANGED <<cart, nextCartId, orders, menuPrice, now, reviews, nextReviewId, rating>>

\* restoReview.findFirst({id, userId})
DeleteReviewRead(s, u, id, ok) ==
  /\ Fresh(s)
  /\ Admit
  /\ LET base == [Idle EXCEPT !.op = "deleteReview", !.user = u, !.target = id]
     IN IF ~ok THEN Respond(s, base.op, 500)
        ELSE IF ~(id \in DOMAIN reviews /\ reviews[id].userId = u)
          THEN Respond(s, base.op, 404)
        ELSE Goto(s, [base EXCEPT !.pc = "dr_write", !.r = reviews[id].restaurantId])
  /\ UNCHANGED <<cart, nextCartId, orders, menuPrice, now, reviews, nextReviewId, rating>>

\* restoReview.delete({where: {id}})
DeleteReviewWrite(s, ok) ==
  /\ req[s].pc = "dr_write"
  /\ UNCHANGED served
  /\ LET me == req[s] IN
       IF ~ok \/ me.target \notin DOMAIN reviews THEN
         /\ Respond(s, me.op, 500)
         /\ UNCHANGED reviews
       ELSE
         /\ reviews' = [id \in DOMAIN reviews \ {me.target} |-> reviews[id]]
         /\ Goto(s, [me EXCEPT !.pc = "rate_read"])
  /\ UNCHANGED <<cart, nextCartId, orders, menuPrice, now, nextReviewId, rating>>

----------------------------------------------------------------------------
(* The catalog collaborator changes a menu's price *)

ChangeMenuPrice(m, p) ==
  /\ Admit
  /\ p # menuPrice[m]
  /\ menuPrice' = [menuPrice EXCEPT ![m] = p]
  /\ UNCHANGED <<cart, nextCartId, orders, now, reviews, nextReviewId, rating, req, resp>>

----------------------------------------------------------------------------
(* Specifications *)

\* the steps of the cart handlers, for requests held in the slots S
CartStep(S) ==
  \/ \E s \in S, u \in Users, r \in RestaurantIds, m \in MenuIds, q \in Quantities, ok \in BOOLEAN :
       AddItemRead(s, u, r, m, q, ok)
  \/ \E s \in S, ok \in BOOLEAN : AddItemWrite(s, ok)
  \/ \E s \in S, u \in Users, id \in 1..MaxCartId, q \in Quantities, ok \in BOOLEAN :
       UpdateQuantityRead(s, u, id, q, ok)
  \/ \E s \in S, ok \in BOOLEAN : UpdateQuantityWrite(s, ok)
  \/ \E s \in S, u \in Users, id \in 1..MaxCartId, ok \in BOOLEAN : RemoveItemRead(s, u, id, ok)
  \/ \E s \in S, ok \in BOOLEAN : RemoveItemWrite(s, ok)
  \/ \E s \in S, u \in Users, ok \in BOOLEAN : ClearCart(s, u, ok)

\* the steps of the checkout handler
CheckoutStep(S) ==
  \/ \E s \in S, u \in Users, pm \in PaymentMethods, ok \in BOOLEAN : CheckoutRead(s, u, pm, ok)
  \/ \E s \in S, ok \in BOOLEAN : CheckoutCreate(s, ok)
  \/ \E s \in S, ok \in BOOLEAN : CheckoutClear(s, ok)

\* the steps of the status handler
StatusStep(S) ==
  \/ \E s \in S, u \in Users, id \in 1..MaxOrders, status \in StatusInputs, ok \in BOOLEAN :
       SetStatusRead(s, u, id, status, ok)
  \/ \E s \in S, ok \in BOOLEAN : SetStatusWrite(s, ok)

\* the steps of the cart and order handlers, for requests held in the slots S
CartOrderStep(S) == CartStep(S) \/ CheckoutStep(S) \/ StatusStep(S)

Catalog == \E m \in Menus, p \in Prices : ChangeMenuPrice(m, p)

\* requests overlap: a second request may arrive while one is in flight
Next == CartOrderStep(Slots) \/ Catalog

Spec == Init /\ [][Next]_vars

\* one request at a time: nothing else happens while a request is in flight
SeqNext == CartOrderStep({1}) \/ (Quiet /\ Catalog)

SpecSeq == Init /\ [][SeqNext]_vars

----------------------------------------------------------------------------
(* All handlers, one request at a time, on a store that already holds an   *)
(* order: user 1 added menu 5 once and checked out at the first clock      *)
(* reading.                                                                *)

InitOrdered ==
  /\ cart = <<>>
  /\ nextCartId = 2
  /\ orders = <<NewOrder(1, "COD",
                  <<[id |-> 1, restaurantId |-> 1, menuId |-> 5, quantity |-> 1,
                     price |-> InitialPrice[5]]>>, ClockStart)>>
  /\ menuPrice = InitialPrice
  /\ reviews = <<>>
  /\ nextReviewId = 1
  /\ rating = InitialRating
  /\ now = ClockStart
  /\ req = [s \in Slots |-> Idle]
  /\ resp = [op |-> "none", code |-> 0]
  /\ served = 0

\* the transactionId values a client may send: those handed out, and an unknown one
TransactionIdInputs == {orders[i].transactionId : i \in DOMAIN orders} \cup {TransactionId(0, 0)}

\* the steps of the review handlers, for requests held in the slots S, the
\* store calls answering (TRUE) or throwing (FALSE) as B allows
ReviewStepWith(S, B) ==
  \/ \E s \in S, u \in Users, tid \in TransactionIdInputs, r \in RestaurantIds, star \in Stars, ok \in B :
       CreateReviewRead(s, u, tid, r, star, ok)
  \/ \E s \in S, ok \in B : CreateReviewWrite(s, ok)
  \/ \E s \in S, u \in Users, id \in 1..MaxReviewId, star \in StarInputs, ok \in B :
       UpdateReviewRead(s, u, id, star, ok)
  \/ \E s \in S, ok \in B : UpdateReviewWrite(s, ok)
  \/ \E s \in S, u \in Users, id \in 1..MaxReviewId, ok \in B : DeleteReviewRead(s, u, id, ok)
  \/ \E s \in S, ok \in B : DeleteReviewWrite(s, ok)
  \/ \E s \in S, ok \in B : RatingRead(s, ok)
  \/ \E s \in S, ok \in B : RatingWrite(s, ok)

ReviewStep(S) == ReviewStepWith(S, BOOLEAN)

AllNext == CartOrderStep({1}) \/ ReviewStep({1}) \/ (Quiet /\ Catalog)

SpecAll == InitOrdered /\ [][AllNext]_vars

----------------------------------------------------------------------------
(* All handlers but checkout, one request at a time, on a store that       *)
(* holds as many orders as it may: menu 5 of restaurant 1 for user 1, then *)
(* either menu 5 for user 2 or menu 9 of restaurant 2 for user 1 again,    *)
(* one clock reading later.                                                *)

\* the cart rows the second order was made from
SecondOrderCarts ==
  {[userId |-> 2, restaurantId |-> 1, menuId |-> 5, quantity |-> 1],
   [userId |-> 1, restaurantId |-> 2, menuId |-> 9, quantity |-> 1],
   [userId |-> 1, restaurantId |-> 1, menuId |-> 5, quantity |-> 2]}

InitTwoOrders ==
  /\ cart = <<>>
  /\ nextCartId = 3
  /\ \E row \in SecondOrderCarts :
       orders = <<NewOrder(1, "COD",
                    <<[id |-> 1, restaurantId |-> 1, menuId |-> 5, quantity |-> 1,
                       price |-> InitialPrice[5]]>>, ClockStart),
                  NewOrder(row.userId, "COD",
                    <<[id |-> 2, restaurantId |-> row.restaurantId, menuId |-> row.menuId,
                       quantity |-> row.quantity, price |-> InitialPrice[row.menuId]]>>,
                    ClockStart + 1)>>
  /\ menuPrice = InitialPrice
  /\ reviews = <<>>
  /\ nextReviewId = 1
  /\ rating = InitialRating
  /\ now = ClockStart + 1
  /\ req = [s \in Slots |-> Idle]
  /\ resp = [op |-> "none", code |-> 0]
  /\ served = 0

TwoNext == CartStep({1}) \/ StatusStep({1}) \/ ReviewStep({1}) \/ (Quiet /\ Catalog)

SpecTwo == InitTwoOrders /\ [][TwoNext]_vars

\* a store where each user owns an order and a cart row and user 1 owns a
\* review, as the POST /cart, checkout and POST /review requests before left
\* it; the last of them has just been answered
InitOwned ==
  /\ cart = <<[userId |-> 1, restaurantId |-> 1, menuId |-> 5, quantity |-> 1],
              [userId |-> 2, restaurantId |-> 2, menuId |-> 9, quantity |-> 1]>>
  /\ nextCartId = 3
  /\ orders = <<NewOrder(1, "COD",
                   <<[id |-> 1, restaurantId |-> 1, menuId |-> 5, quantity |-> 1,
                      price |-> InitialPrice[5]]>>, ClockStart),
                 NewOrder(2, "COD",
                   <<[id |-> 2, restaurantId |-> 1, menuId |-> 5, quantity |-> 1,
                      price |-> InitialPrice[5]]>>, ClockStart + 1)>>
  /\ menuPrice = InitialPrice
  /\ \E star \in {2, 5} :
       /\ reviews = <<[userId |-> 1, restaurantId |-> 1, star |-> star]>>
       /\ rating = [InitialRating EXCEPT ![1] = RoundedMean(<<[star |-> star]>>)]
  /\ nextReviewId = 2
  /\ now = ClockStart + 1
  /\ req = [s \in Slots |-> Idle]
  /\ resp = [op |-> "createReview", code |-> 201]
  /\ served = 1

SpecOwned == InitOwned /\ [][TwoNext]_vars

\* the review handlers alone on that store, one request at a time, every
\* store call answering
SpecReviewSeq == InitTwoOrders /\ [][ReviewStepWith({1}, {TRUE})]_vars

\* the review handlers on that store with requests overlapping, every store
\* call answering
SpecReviewConc == InitTwoOrders /\ [][ReviewStepWith(Slots, {TRUE})]_vars

----------------------------------------------------------------------------
(* GET /cart alone: the listing of any cart of up to MaxListed rows, as    *)
(* POST /cart requests stored them (rows of one user, restaurant and menu  *)
(* twice included), at any prices, asked as the last request.              *)

\* the rows POST /cart stores
ListedRows ==
  {[userId |-> u, restaurantId |-> MenuRestaurant[m], menuId |-> m, quantity |-> q] :
     u \in Users, m \in Menus, q \in Quantities}

InitListed ==
  /\ cart \in UNION {[1..n -> ListedRows] : n \in 0..MaxListed}
  /\ nextCartId = Len(cart) + 1
  /\ orders = <<>>
  /\ menuPrice \in [Menus -> Prices]
  /\ reviews = <<>>
  /\ nextReviewId = 1
  /\ rating = InitialRating
  /\ now = ClockStart
  /\ req = [s \in Slots |-> Idle]
  /\ resp = [op |-> "none", code |-> 0]
  /\ served = MaxRequests - 1

ListNext == \E u \in Users, ok \in BOOLEAN : ListCart(1, u, ok)

SpecList == InitListed /\ [][ListNext]_vars

----------------------------------------------------------------------------
(* updateRestaurantRating alone: restaurant 1 holds any list of up to      *)
(* MaxRated reviews, one per reviewer, and a review handler has just       *)
(* reached the recomputation; the store answers.                           *)

StarLists == UNION {[1..n -> Stars] : n \in 0..MaxRated}

InitRated ==
  /\ cart = <<>>
  /\ nextCartId = 1
  /\ orders = <<>>
  /\ menuPrice = InitialPrice
  /\ \E stars \in StarLists :
       reviews = [i \in DOMAIN stars |-> [userId |-> i, restaurantId |-> 1, star |-> stars[i]]]
  /\ nextReviewId = Len(reviews) + 1
  /\ rating = InitialRating
  /\ now = ClockStart
  /\ req = [s \in Slots |->
              IF s = 1 THEN [Idle EXCEPT !.op = "deleteReview", !.pc = "rate_read",
                                         !.user = 1, !.r = 1]
              ELSE Idle]
  /\ resp = [op |-> "none", code |-> 0]
  /\ served = 1

RatingNext == RatingRead(1, TRUE) \/ RatingWrite(1, TRUE)

SpecRating == InitRated /\ [][RatingNext]_vars

----------------------------------------------------------------------------
(* Properties *)

\* the sum of the itemTotal of the first n lines, taken from the stored lines
RECURSIVE LineSum(_, _)
LineSum(items, n) ==
  IF n = 0 THEN 0 ELSE items[n].itemTotal + LineSum(items, n - 1)

\* what the cart rows ids are worth at the menus' current prices
RECURSIVE CartValue(_)
CartValue(ids) ==
  IF ids = {} THEN 0
  ELSE LET id == CHOOSE x \in ids : TRUE
       IN menuPrice[cart[id].menuId] * cart[id].quantity + CartValue(ids \ {id})

\* the quantities stored in the cart rows ids, added up
RECURSIVE QuantitySum(_)
QuantitySum(ids) ==
  IF ids = {} THEN 0
  ELSE LET id == CHOOSE x \in ids : TRUE
       IN cart[id].quantity + QuantitySum(ids \ {id})

\* the cart rows of user u for menu m of restaurant r
TripleIds(u, r, m) ==
  {id \in DOMAIN cart : /\ cart[id].userId = u
                        /\ cart[id].restaurantId = r
                        /\ cart[id].menuId = m}

\* C1: every stored order has totalPrice = price + serviceFee + deliveryFee,
\* price equal to the sum of its lines' itemTotal, and every line's
\* itemTotal equal to its price times its quantity.
OrderTotalsReconcile ==
  \A i \in DOMAIN orders :
    LET o == orders[i] IN
      /\ o.totalPrice = o.price + o.serviceFee + o.deliveryFee
      /\ o.price = LineSum(o.items, Len(o.items))
      /\ \A k \in DOMAIN o.items :
           o.items[k].itemTotal = o.items[k].price * o.items[k].quantity

\* an order of two lines has been stored
OrderOfTwoLines ==
  \E i \in DOMAIN orders : Len(orders[i].items) = 2 /\ orders[i].price > 0

\* C2: with one request at a time, a successful addItem of quantity q for a
\* (user, restaurant, menu) leaves exactly one cart row for it, holding q
\* more than the triple held before (q when it held nothing); hence after
\* any sequence of such calls the row holds the sum of their quantities.
AddItemAccumulates ==
  [][\A s \in Slots :
       (req[s].pc = "add_write" /\ req'[s].pc = "idle" /\ resp'.code = 201) =>
         LET me == req[s]
             after == {id \in DOMAIN cart' : /\ cart'[id].userId = me.user
                                             /\ cart'[id].restaurantId = me.r
                                             /\ cart'[id].menuId = me.m}
         IN /\ Cardinality(after) = 1
            /\ \A id \in after :
                 cart'[id].quantity = QuantitySum(TripleIds(me.user, me.r, me.m)) + me.q]_vars

\* starting without cart rows, two addItem calls for the same triple have
\* been answered, and the one row holds more than a single call can ask for
TwoAddsSummed ==
  /\ served = 2
  /\ resp = [op |-> "addItem", code |-> 201]
  /\ nextCartId = 2
  /\ \E id \in DOMAIN cart : \A q \in Quantities : cart[id].quantity > q

\* C3: at any time there is at most one cart row per (user, restaurant,
\* menu), whatever the interleaving of requests.
OneEntryPerTriple ==
  \A a, b \in DOMAIN cart :
    (/\ cart[a].userId = cart[b].userId
     /\ cart[a].restaurantId = cart[b].restaurantId
     /\ cart[a].menuId = cart[b].menuId) => a = b

\* C4: a checkout by a user without cart rows is answered 400 (500 when the
\* read itself fails), ends there, and leaves the store as it was.
EmptyCartCheckoutRefused ==
  [][\A s \in Slots, u \in Users, pm \in PaymentMethods, ok \in BOOLEAN :
       (UserCartIds(u) = {} /\ CheckoutRead(s, u, pm, ok)) =>
         /\ resp' = [op |-> "checkout", code |-> IF ok THEN 400 ELSE 500]
         /\ req'[s] = Idle
         /\ UNCHANGED <<cart, nextCartId, orders, menuPrice, reviews, nextReviewId,
                        rating, now>>]_vars

\* a checkout was refused for an empty cart while another user's cart held rows
EmptyCartRefused ==
  /\ resp = [op |-> "checkout", code |-> 400]
  /\ orders = <<>>
  /\ Quiet
  /\ \E u \in Users : UserCartIds(u) = {}
  /\ \E u \in Users : UserCartIds(u) # {}

\* C5: a checkout either stores the order and clears the cart, or does
\* neither: when the request ends, either it answers 201 with the order
\* stored and the user's cart empty, or no order was stored for it and
\* the cart is as it was.
CheckoutAllOrNothing ==
  [][\A s \in Slots :
       (req[s].op = "checkout" /\ req'[s].pc = "idle") =>
         \/ /\ resp'.code = 201
            /\ req[s].made \in DOMAIN orders'
            /\ \A id \in DOMAIN cart' : cart'[id].userId # req[s].user
         \/ /\ req[s].made = 0
            /\ orders' = orders
            /\ cart' = cart]_vars

\* C6: the step that completes a checkout with 201 leaves its user without
\* cart rows and every other user's rows as they were.
CheckoutClearsOwnCartOnly ==
  [][\A s \in Slots :
       (req[s].pc = "co_clear" /\ req'[s].pc = "idle" /\ resp'.code = 201) =>
         /\ \A id \in DOMAIN cart' : cart'[id].userId # req[s].user
         /\ \A id \in DOMAIN cart :
              cart[id].userId # req[s].user => id \in DOMAIN cart' /\ cart'[id] = cart[id]
         /\ DOMAIN cart' \subseteq DOMAIN cart]_vars

\* a checkout has succeeded, its user's cart is empty and another user's is not
CheckedOutBesideOtherCart ==
  /\ resp = [op |-> "checkout", code |-> 201]
  /\ orders # <<>>
  /\ UserCartIds(orders[Len(orders)].userId) = {}
  /\ \E id \in DOMAIN cart : cart[id].userId # orders[Len(orders)].userId


\* the lines of the order of menu 5 (50000) twice from restaurant 1 and
\* menu 9 (15000) once from restaurant 2
ScenarioLines(items) ==
  /\ Len(items) = 2
  /\ {<<items[k].restaurantId, items[k].menuId, items[k].price, items[k].quantity>> :
        k \in DOMAIN items} = {<<1, 5, 50000, 2>>, <<2, 9, 15000, 1>>}

\* C7: with one request at a time, the order a checkout has just stored has
\* as subtotal the user's cart rows valued at the menus' current prices, one
\* line per row, and the fees on top; the order of menu 5 x 2 at 50000 and
\* menu 9 x 1 at 15000 has subtotal 115000, total 126000 and two
\* restaurant groups.
SubtotalAtCurrentPrices ==
  /\ \A s \in Slots :
       req[s].pc = "co_clear" =>
         LET o == orders[req[s].made]
             ids == UserCartIds(req[s].user)
         IN /\ o.price = CartValue(ids)
            /\ Len(o.items) = Cardinality(ids)
            /\ \A id \in ids : \E k \in DOMAIN o.items :
                 /\ o.items[k].menuId = cart[id].menuId
                 /\ o.items[k].price = menuPrice[cart[id].menuId]
                 /\ o.items[k].quantity = cart[id].quantity
            /\ o.totalPrice = CartValue(ids) + serviceFee + deliveryFee
  /\ \A i \in DOMAIN orders :
       ScenarioLines(orders[i].items) =>
         /\ orders[i].price = 115000
         /\ orders[i].totalPrice = 126000
         /\ Cardinality(RestaurantGroups(orders[i].items)) = 2

\* the order of the scenario has been stored
ScenarioOrdered ==
  \E i \in DOMAIN orders : ScenarioLines(orders[i].items) /\ orders[i].price = 115000

\* C8: no step changes anything but the status of an order already stored,
\* and no step removes one: not a menu price change, a cart operation,
\* a checkout, a status update or a review operation.
OrdersFrozenButStatus ==
  [][\A i \in DOMAIN orders :
       /\ i \in DOMAIN orders'
       /\ [orders'[i] EXCEPT !.status = orders[i].status] = orders[i]]_vars

\* the first order has seen a status update and a price change of its menu
OrderOutlivedEvents ==
  /\ orders # <<>>
  /\ orders[1].status # "preparing"
  /\ menuPrice[orders[1].items[1].menuId] # orders[1].items[1].price

\* C9: any two distinct orders carry different transactionId values, and
\* each value is the one built from a clock reading and the owner's id.
TransactionIdsUnique ==
  /\ \A i, j \in DOMAIN orders :
       i # j => orders[i].transactionId # orders[j].transactionId
  /\ \A i \in DOMAIN orders : \E t \in ClockStart..MaxClock :
       orders[i].transactionId = TransactionId(t, orders[i].userId)

\* one user holds two orders
TwoOrdersOfOneUser ==
  /\ Len(orders) = 2
  /\ orders[1].userId = orders[2].userId

\* C10: a status update naming a value outside validStatuses is answered
\* 400 and touches no order, whether or not the order exists, belongs to
\* the caller, or the store is reachable.
InvalidStatusRefused ==
  [][\A s \in Slots, u \in Users, id \in 1..MaxOrders, ok \in BOOLEAN :
       \A status \in StatusInputs \ validStatuses :
         SetStatusRead(s, u, id, status, ok) =>
           /\ resp' = [op |-> "setStatus", code |-> 400]
           /\ req'[s] = Idle
           /\ orders' = orders]_vars

\* an invalid status was refused for an order that exists and is still
\* in its first status
InvalidStatusOnExistingOrder ==
  /\ resp = [op |-> "setStatus", code |-> 400]
  /\ orders # <<>>
  /\ \A i \in DOMAIN orders : orders[i].status = "preparing"

\* C11: the status of every stored order is one of preparing, on_the_way,
\* delivered, done, cancelled, and an order is preparing in the state
\* right after the step that stored it.
OrderStatusInEnumeration ==
  /\ [](\A i \in DOMAIN orders :
         orders[i].status \in {"preparing", "on_the_way", "delivered", "done", "cancelled"})
  /\ [][\A i \in DOMAIN orders' \ DOMAIN orders : orders'[i].status = "preparing"]_vars

\* a checkout has just stored an order and has not yet cleared the cart
OrderJustStored ==
  \E s \in Slots :
    /\ req[s].pc = "co_clear"
    /\ req[s].made = Len(orders)
    /\ orders[req[s].made].status = "preparing"
    /\ UserCartIds(req[s].user) # {}

\* C12: done and cancelled are terminal: no step changes the status of an
\* order that is done or cancelled.
TerminalStatusKept ==
  [][\A i \in DOMAIN orders :
       orders[i].status \in {"done", "cancelled"} =>
         i \in DOMAIN orders' /\ orders'[i].status = orders[i].status]_vars

\* C12, as the handlers have it: the status of an order that is done or
\* cancelled changes only in the write of a status update made by the
\* order's owner, which is answered 200 and stores the status it names,
\* one of the enumeration; no other step changes it.
TerminalStatusChangedByOwnerOnly ==
  [][\A i \in DOMAIN orders :
       (orders[i].status \in {"done", "cancelled"} /\ i \in DOMAIN orders'
          /\ orders'[i].status # orders[i].status) =>
         \E s \in Slots :
           /\ req[s].pc = "st_write"
           /\ req[s].target = i
           /\ req[s].user = orders[i].userId
           /\ orders'[i].status = req[s].label
           /\ req[s].label \in {"preparing", "on_the_way", "delivered", "done", "cancelled"}
           /\ req'[s] = Idle
           /\ resp' = [op |-> "setStatus", code |-> 200]]_vars

\* the order is done and a review is being created after that
ReviewAfterOrderDone ==
  /\ orders # <<>>
  /\ orders[1].status = "done"
  /\ \E s \in Slots : req[s].op = "createReview" /\ req[s].pc = "rate_read"

\* C13: a status update by the order's owner naming a status of the
\* enumeration passes the lookup whatever the order's current status, and
\* its write (the store answering) is answered 200 and leaves the order
\* with exactly the status named.
AnyStatusFromAnyStatus ==
  [][/\ \A s \in Slots, u \in Users, id \in 1..MaxOrders :
          \A status \in {"preparing", "on_the_way", "delivered", "done", "cancelled"} :
            (/\ id \in DOMAIN orders
             /\ orders[id].userId = u
             /\ SetStatusRead(s, u, id, status, TRUE)) =>
              /\ req'[s].pc = "st_write"
              /\ req'[s].target = id
              /\ req'[s].label = status
     /\ \A s \in Slots :
          SetStatusWrite(s, TRUE) =>
            /\ orders'[req[s].target].status = req[s].label
            /\ resp' = [op |-> "setStatus", code |-> 200]
            /\ req'[s] = Idle]_vars

\* a done order's owner has asked to take it back to preparing, and the
\* request has passed the lookup
BackwardStepOutOfDone ==
  \E s \in Slots :
    /\ req[s].pc = "st_write"
    /\ req[s].label = "preparing"
    /\ orders[req[s].target].status = "done"
    /\ orders[req[s].target].userId = req[s].user

\* the step answers 404 for operation op in slot s and leaves the store as it was
RefusedNotFound(s, op) ==
  /\ resp' = [op |-> op, code |-> 404]
  /\ req'[s] = Idle
  /\ UNCHANGED <<cart, nextCartId, orders, menuPrice, reviews, nextReviewId, rating, now>>

\* C14: a status update, a quantity update, a removal, a review update or a
\* review deletion addressed to an id that is not the caller's (another
\* user's row, or no row at all) is answered 404 and leaves the store as
\* it was; the answer is the same in both cases.
ForeignIdNotFound ==
  [][\A s \in Slots, u \in Users :
       /\ \A id \in 1..MaxOrders, status \in StatusInputs :
            (/\ ~(id \in DOMAIN orders /\ orders[id].userId = u)
             /\ status \in {"preparing", "on_the_way", "delivered", "done", "cancelled"}
             /\ SetStatusRead(s, u, id, status, TRUE)) => RefusedNotFound(s, "setStatus")
       /\ \A id \in 1..MaxCartId, q \in Quantities :
            (/\ ~(id \in DOMAIN cart /\ cart[id].userId = u)
             /\ UpdateQuantityRead(s, u, id, q, TRUE)) => RefusedNotFound(s, "updateQuantity")
       /\ \A id \in 1..MaxCartId :
            (/\ ~(id \in DOMAIN cart /\ cart[id].userId = u)
             /\ RemoveItemRead(s, u, id, TRUE)) => RefusedNotFound(s, "removeItem")
       /\ \A id \in 1..MaxReviewId, star \in StarInputs :
            (/\ ~(id \in DOMAIN reviews /\ reviews[id].userId = u)
             /\ star \in 0..5
             /\ UpdateReviewRead(s, u, id, star, TRUE)) => RefusedNotFound(s, "updateReview")
       /\ \A id \in 1..MaxReviewId :
            (/\ ~(id \in DOMAIN reviews /\ reviews[id].userId = u)
             /\ DeleteReviewRead(s, u, id, TRUE)) => RefusedNotFound(s, "deleteReview")]_vars

\* a status update was answered 404 although every order id a request may
\* name exists: the caller was not the order's owner
StatusUpdateByNonOwnerRefused ==
  /\ resp = [op |-> "setStatus", code |-> 404]
  /\ \A id \in 1..MaxOrders : id \in DOMAIN orders /\ orders[id].status = "preparing"

\* the stars of the review rows ids, added up
RECURSIVE StarTotal(_)
StarTotal(ids) ==
  IF ids = {} THEN 0
  ELSE LET id == CHOOSE x \in ids : TRUE
       IN reviews[id].star + StarTotal(ids \ {id})

\* the review rows of restaurant r
RestaurantReviewIds(r) == {id \in DOMAIN reviews : reviews[id].restaurantId = r}

\* t tenths is the mean of the stars of the rows ids rounded to one decimal,
\* halves upwards: t - 1/2 <= 10 * sum / n < t + 1/2
IsRoundedMean(t, ids) ==
  LET n == Cardinality(ids)
      sum == StarTotal(ids)
  IN /\ (2 * t - 1) * n <= 20 * sum
     /\ 20 * sum < (2 * t + 1) * n

\* C15: once the recomputation has run for restaurant 1, its rating is the
\* mean of its reviews' stars rounded to one decimal, halves upwards,
\* given in integers by floor((20 * sum + n) / (2 * n)) tenths; stars
\* 5, 4, 3 give 4.0 and a single 5 gives 5.0; without reviews the rating
\* is the one it had; no other restaurant's rating moves.
RatingIsRoundedMean ==
  Quiet =>
    LET ids == RestaurantReviewIds(1)
        n == Cardinality(ids)
    IN /\ ids # {} =>
            /\ IsRoundedMean(rating[1], ids)
            /\ rating[1] = (20 * StarTotal(ids) + n) \div (2 * n)
       /\ ids = {} => rating[1] = InitialRating[1]
       /\ reviews = [i \in 1..3 |-> [userId |-> i, restaurantId |-> 1, star |-> 6 - i]]
            => rating[1] = 40
       /\ reviews = <<[userId |-> 1, restaurantId |-> 1, star |-> 5]>> => rating[1] = 50
       /\ rating[2] = InitialRating[2]

\* the recomputation has run over the stars 5, 4, 3 and stored 4.0
RatedFiveFourThree ==
  /\ Quiet
  /\ reviews = [i \in 1..3 |-> [userId |-> i, restaurantId |-> 1, star |-> 6 - i]]
  /\ rating[1] = 40

RatingWriteStoresCurrentMean ==
  /\ [][\A s \in Slots :
          (RatingWrite(s, TRUE) /\ RestaurantReviewIds(req[s].r) # {})
            => IsRoundedMean(rating'[req[s].r], RestaurantReviewIds(req[s].r))]_vars
  /\ [](Quiet =>
          \A r \in Restaurants :
            RestaurantReviewIds(r) # {} => IsRoundedMean(rating[r], RestaurantReviewIds(r)))

\* the orders of user u that carry the transaction id tid
OrdersOf(u, tid) ==
  {i \in DOMAIN orders : orders[i].userId = u /\ orders[i].transactionId = tid}

\* order i has a line of restaurant r
OrderHasRestaurant(i, r) ==
  \E k \in DOMAIN orders[i].items : orders[i].items[k].restaurantId = r

\* user u has a review of restaurant r
HasReviewed(u, r) ==
  \E id \in DOMAIN reviews : reviews[id].userId = u /\ reviews[id].restaurantId = r

\* the request in slot s was answered with this code and nothing of the
\* reviews or the ratings moved
ReviewRefused(s, code) ==
  /\ resp' = [op |-> "createReview", code |-> code]
  /\ req'[s] = Idle
  /\ reviews' = reviews
  /\ nextReviewId' = nextReviewId
  /\ rating' = rating

\* C18 as stated: a createReview of a user who has reviewed the restaurant
\* is answered 409 whichever order of the user it names, reviews and
\* ratings unchanged.
SecondReviewConflictsAnyOrder ==
  [][\A s \in Slots, u \in Users, tid \in TransactionIdInputs, r \in Restaurants, star \in Stars :
       (/\ CreateReviewRead(s, u, tid, r, star, TRUE)
        /\ OrdersOf(u, tid) # {}
        /\ HasReviewed(u, r))
         => ReviewRefused(s, 409)]_vars

\* C18: a createReview of a user who has reviewed the restaurant is
\* answered 409 whichever order of the user with a line of that restaurant
\* it names, and is refused with reviews and ratings unchanged whichever
\* order of the user it names.
SecondReviewConflicts ==
  [][\A s \in Slots, u \in Users, tid \in TransactionIdInputs, r \in Restaurants, star \in Stars :
       (/\ CreateReviewRead(s, u, tid, r, star, TRUE)
        /\ OrdersOf(u, tid) # {}
        /\ HasReviewed(u, r))
         => IF \E i \in OrdersOf(u, tid) : OrderHasRestaurant(i, r)
              THEN ReviewRefused(s, 409)
              ELSE ReviewRefused(s, 400)]_vars

\* a second review was refused as a duplicate while user 1, who has two
\* orders with lines of restaurant 1, has a review of it
DuplicateReviewRefused ==
  /\ resp = [op |-> "createReview", code |-> 409]
  /\ Quiet
  /\ HasReviewed(1, 1)
  /\ \A i \in DOMAIN orders : orders[i].userId = 1 /\ OrderHasRestaurant(i, 1)
  /\ Len(orders) = 2

\* C19 as stated: a createReview naming an order that is not the user's, or
\* an order of the user without a line of the restaurant, is answered with
\* the refusal kept for restaurants not ordered from (the handler's 400),
\* reviews and ratings unchanged.
UnorderedReviewForbidden ==
  [][\A s \in Slots, u \in Users, tid \in TransactionIdInputs, r \in Restaurants, star \in Stars :
       (/\ CreateReviewRead(s, u, tid, r, star, TRUE)
        /\ \A i \in OrdersOf(u, tid) : ~OrderHasRestaurant(i, r))
         => ReviewRefused(s, 400)]_vars

\* C19: a createReview naming an order that is not the user's is answered
\* 404, one naming an order of the user without a line of the restaurant
\* is answered 400, both with reviews and ratings unchanged; and a review
\* row is only ever added for a user and a restaurant joined by an order.
UnorderedReviewRefused ==
  /\ [][\A s \in Slots, u \in Users, tid \in TransactionIdInputs, r \in Restaurants, star \in Stars :
          (/\ CreateReviewRead(s, u, tid, r, star, TRUE)
           /\ \A i \in OrdersOf(u, tid) : ~OrderHasRestaurant(i, r))
            => IF OrdersOf(u, tid) = {}
                 THEN ReviewRefused(s, 404)
                 ELSE ReviewRefused(s, 400)]_vars
  /\ [][\A id \in DOMAIN reviews' \ DOMAIN reviews :
          \E i \in DOMAIN orders :
            /\ orders[i].userId = reviews'[id].userId
            /\ OrderHasRestaurant(i, reviews'[id].restaurantId)]_vars

\* a review of a restaurant the named order has no line of was refused,
\* no review stored and the ratings as seeded
NotOrderedFromRefused ==
  /\ resp = [op |-> "createReview", code |-> 400]
  /\ Quiet
  /\ reviews = <<>>
  /\ rating = InitialRating

\* the statuses of an order that has been completed
CompletedStatuses == {"delivered", "done"}

\* C20: a review row is only ever added for a user who has a completed
\* order with a line of the reviewed restaurant (an order delivered or
\* done; one still preparing or on the way, or cancelled, does not count).
ReviewOnlyAfterCompletedOrder ==
  [][\A id \in DOMAIN reviews' \ DOMAIN reviews :
       \E i \in DOMAIN orders :
         /\ orders[i].userId = reviews'[id].userId
         /\ OrderHasRestaurant(i, reviews'[id].restaurantId)
         /\ orders[i].status \in CompletedStatuses]_vars

\* C21: every stored review has a star among 1, 2, 3, 4 and 5, whether a
\* create or an update stored it.
ReviewStarsInRange ==
  \A id \in DOMAIN reviews : reviews[id].star \in 1..5

\* an update has just stored the star it was asked for in a review that a
\* create had stored
UpdatedStarStored ==
  \E s \in Slots :
    /\ req[s].op = "updateReview"
    /\ req[s].pc = "rate_read"
    /\ req[s].target \in DOMAIN reviews
    /\ reviews[req[s].target].star = req[s].q

\* C22: an addItem naming a restaurant that does not exist, a menu that
\* does not exist, or a menu of another restaurant is answered 404 with
\* the cart as it was; and every cart row pairs a menu with the restaurant
\* that owns it.
AddItemChecksCatalog ==
  /\ [][\A s \in Slots, u \in Users, r \in RestaurantIds, m \in MenuIds, q \in Quantities :
          (/\ (r \notin Restaurants \/ m \notin Menus \/ MenuRestaurant[m] # r)
           /\ AddItemRead(s, u, r, m, q, TRUE))
            => /\ resp' = [op |-> "addItem", code |-> 404]
               /\ req'[s] = Idle
               /\ cart' = cart
               /\ nextCartId' = nextCartId]_vars
  /\ [](\A id \in DOMAIN cart :
          /\ cart[id].menuId \in Menus
          /\ MenuRestaurant[cart[id].menuId] = cart[id].restaurantId)

\* an addItem was refused for its restaurant or menu beside a cart that
\* holds a row an earlier addItem stored
AddItemRefusedBesideRow ==
  /\ resp = [op |-> "addItem", code |-> 404]
  /\ Quiet
  /\ nextCartId > 1
  /\ \E id \in DOMAIN cart : id = nextCartId - 1

\* C23: an updateQuantity of the owner of a cart row with quantity q goes on
\* to the write, and the write stores exactly q in that row whatever it
\* held, answers 200 with itemTotal = the menu's price times q, and leaves
\* every other row, and the set of rows, as they were.
UpdateQuantityReplaces ==
  [][\A s \in Slots :
       /\ \A u \in Users, id \in 1..MaxCartId, q \in Quantities :
            (id \in UserCartIds(u) /\ UpdateQuantityRead(s, u, id, q, TRUE))
              => /\ req'[s].pc = "upd_write"
                 /\ req'[s].target = id
                 /\ req'[s].q = q
                 /\ cart' = cart
       /\ (UpdateQuantityWrite(s, TRUE) /\ req[s].target \in DOMAIN cart)
            => /\ DOMAIN cart' = DOMAIN cart
               /\ cart'[req[s].target] = [cart[req[s].target] EXCEPT !.quantity = req[s].q]
               /\ \A id \in DOMAIN cart \ {req[s].target} : cart'[id] = cart[id]
               /\ resp'.op = "updateQuantity"
               /\ resp'.code = 200
               /\ resp'.data.quantity = req[s].q
               /\ resp'.data.itemTotal = menuPrice[cart[req[s].target].menuId] * req[s].q]_vars

\* the one request served set to 1 the quantity of the row of menu 5 that
\* held 2, beside the user's row of menu 9
QuantityTwoReplacedByOne ==
  /\ served = 1
  /\ Quiet
  /\ resp.op = "updateQuantity"
  /\ resp.code = 200
  /\ resp.data = [id |-> 1, quantity |-> 1, itemTotal |-> menuPrice[5]]
  /\ DOMAIN cart = {1, 2}
  /\ cart[1] = [userId |-> 1, restaurantId |-> 1, menuId |-> 5, quantity |-> 1]
  /\ cart[2] = [userId |-> 1, restaurantId |-> 2, menuId |-> 9, quantity |-> 1]

\* the cart rows c without those of user u
CartWithout(c, u) == [id \in {i \in DOMAIN c : c[i].userId # u} |-> c[id]]

\* C24: a clear of user u answers 200 whether or not the user has rows,
\* leaves exactly the rows of the other users, each as it was, and a
\* second clear of the store it leaves would leave the same store.
ClearDeletesOwnRowsOnly ==
  [][\A s \in Slots, u \in Users :
       ClearCart(s, u, TRUE)
         => /\ cart' = CartWithout(cart, u)
            /\ CartWithout(cart', u) = cart'
            /\ (UserCartIds(u) = {} => cart' = cart)
            /\ resp' = [op |-> "clear", code |-> 200]
            /\ req'[s] = Idle
            /\ UNCHANGED <<nextCartId, orders, menuPrice, reviews, nextReviewId, rating>>]_vars

\* the one request served cleared the cart of user 1 and the row of user 2
\* is still there
ClearedBesideOtherUsersRow ==
  /\ served = 1
  /\ Quiet
  /\ resp = [op |-> "clear", code |-> 200]
  /\ DOMAIN cart = {2}
  /\ cart[2] = [userId |-> 2, restaurantId |-> 2, menuId |-> 9, quantity |-> 1]

\* the groups of a listing whose restaurant is r
GroupsOf(data, r) == {i \in DOMAIN data.cart : data.cart[i].restaurant = r}

\* the itemTotal of the items of a group, added up
GroupItemsTotal(group) == LineSum(group.items, Len(group.items))

\* the subtotals of the first n groups, added up
RECURSIVE SubtotalSum(_, _)
SubtotalSum(groups, n) ==
  IF n = 0 THEN 0 ELSE groups[n].subtotal + SubtotalSum(groups, n - 1)

\* C25: the listing of user u's cart has exactly one group for every
\* restaurant among the user's rows and none for any other; every row of
\* the user is an item of the group of its restaurant, once, with its
\* quantity and itemTotal = menu price x quantity, and the groups hold no
\* other item; a group's subtotal is the sum of its items' totals;
\* totalItems is the sum of the quantities, totalPrice the sum of the line
\* totals and of the subtotals, restaurantCount the number of groups; and
\* the store is as it was.
ListingGroupsByRestaurant ==
  [][\A s \in Slots, u \in Users :
       ListCart(s, u, TRUE) =>
         LET data == resp'.data
             mine == UserCartIds(u)
         IN /\ resp'.op = "listGrouped" /\ resp'.code = 200
            /\ \A r \in Restaurants :
                 Cardinality(GroupsOf(data, r)) =
                   IF \E id \in mine : cart[id].restaurantId = r THEN 1 ELSE 0
            /\ \A i \in DOMAIN data.cart : data.cart[i].restaurant \in Restaurants
            /\ \A id \in mine :
                 \E i \in GroupsOf(data, cart[id].restaurantId) :
                   /\ Cardinality({k \in DOMAIN data.cart[i].items :
                                     data.cart[i].items[k].id = id}) = 1
                   /\ \A k \in DOMAIN data.cart[i].items :
                        data.cart[i].items[k].id = id
                          => /\ data.cart[i].items[k].quantity = cart[id].quantity
                             /\ data.cart[i].items[k].menu = cart[id].menuId
                             /\ data.cart[i].items[k].itemTotal =
                                  menuPrice[cart[id].menuId] * cart[id].quantity
            /\ \A i \in DOMAIN data.cart : \A k \in DOMAIN data.cart[i].items :
                 /\ data.cart[i].items[k].id \in mine
                 /\ cart[data.cart[i].items[k].id].restaurantId = data.cart[i].restaurant
            /\ \A i \in DOMAIN data.cart :
                 data.cart[i].subtotal = GroupItemsTotal(data.cart[i])
            /\ data.summary.totalItems = QuantitySum(mine)
            /\ data.summary.totalPrice = CartValue(mine)
            /\ data.summary.totalPrice = SubtotalSum(data.cart, Len(data.cart))
            /\ data.summary.restaurantCount = Len(data.cart)
            /\ UNCHANGED <<cart, nextCartId, orders, menuPrice, reviews, nextReviewId, rating>>]_vars

\* a listing of two groups, one of them of two items, was returned
ListedTwoGroups ==
  /\ resp.op = "listGrouped"
  /\ resp.code = 200
  /\ resp.data.summary.restaurantCount = 2
  /\ \E i \in DOMAIN resp.data.cart : Len(resp.data.cart[i].items) = 2
  /\ resp.data.summary.totalItems > 3

\* C26: when a store call of the rating recomputation fails, the review
\* request it belongs to is answered 500.
RatingFailureSurfaced ==
  [][\A s \in Slots :
       (RatingRead(s, FALSE) \/ RatingWrite(s, FALSE))
         => resp' = [op |-> req[s].op, code |-> 500]]_vars

\* C27: the write of an addItem that found a row stores the quantity it
\* read plus the quantity asked for, whatever the row holds by then; when
\* another addItem has raised the row in between, the row ends below what
\* it held plus the quantity asked for, and that addItem's quantity is lost.
AddItemWritesWhatItRead ==
  [][\A s \in Slots :
       (/\ AddItemWrite(s, TRUE)
        /\ req[s].seen # <<>>
        /\ req[s].seen[1].id \in DOMAIN cart)
         => LET id == req[s].seen[1].id
            IN /\ cart'[id].quantity = req[s].seen[1].quantity + req[s].q
               /\ resp' = [op |-> "addItem", code |-> 201]
               /\ cart[id].quantity > req[s].seen[1].quantity
                    => cart'[id].quantity < cart[id].quantity + req[s].q]_vars

\* of two addItem requests for one row, one has been answered and has
\* raised the row above what the other, about to write, read
AddItemOvertaken ==
  /\ served = 2
  /\ resp = [op |-> "addItem", code |-> 201]
  /\ \E s \in Slots :
       /\ req[s].op = "addItem"
       /\ req[s].pc = "add_write"
       /\ req[s].seen # <<>>
       /\ req[s].seen[1].id \in DOMAIN cart
       /\ cart[req[s].seen[1].id].quantity > req[s].seen[1].quantity

\* C28: at any time there is at most one review per (user, restaurant),
\* whatever the interleaving of requests.
OneReviewPerPair ==
  \A a, b \in DOMAIN reviews :
    (reviews[a].userId = reviews[b].userId /\ reviews[a].restaurantId = reviews[b].restaurantId)
      => a = b

\* C29: every cart row that the cart-clear of a checkout deletes is a line
\* of the order that checkout created, with the same restaurant, menu and
\* quantity.
CheckoutDeletesOrderedRowsOnly ==
  [][\A s \in Slots :
       CheckoutClear(s, TRUE)
         => \A id \in DOMAIN cart \ DOMAIN cart' :
              /\ req[s].made \in DOMAIN orders
              /\ \E k \in DOMAIN orders[req[s].made].items :
                   /\ orders[req[s].made].items[k].restaurantId = cart[id].restaurantId
                   /\ orders[req[s].made].items[k].menuId = cart[id].menuId
                   /\ orders[req[s].made].items[k].quantity = cart[id].quantity]_vars

\* the ids of the cart rows a checkout read
SeenIds(s) == {req[s].seen[i].id : i \in DOMAIN req[s].seen}

\* C30: an order is only created from cart rows that are still in the cart
\* and that no other checkout, still before its cart-clear, has created an
\* order from: the contents of a cart are ordered at most once.
CartOrderedAtMostOnce ==
  [][\A s \in Slots :
       (CheckoutCreate(s, TRUE) /\ Len(orders') > Len(orders))
         => /\ SeenIds(s) \subseteq DOMAIN cart
            /\ \A t \in Slots \ {s} :
                 (req[t].pc = "co_clear" /\ req[t].user = req[s].user)
                   => SeenIds(t) \cap SeenIds(s) = {}]_vars

====
